---- MODULE Spec2Model ----
(***************************************************************************)
(* A model of judge.py: the scoring of a submitted ranked diagnosis        *)
(* against the ground truth of a fault-localisation task.                  *)
(*                                                                         *)
(* Python values are modelled as follows.                                  *)
(*   - a str is a sequence of one-character strings;                       *)
(*   - a token (a cell of a file, an argument of a constructor) is a       *)
(*     record [k, s, n]: None, a str (s) or an int (n);                    *)
(*   - a dict is a sequence of [key, val] entries with distinct keys, in   *)
(*     insertion order (the order Python iterates it in);                  *)
(*   - an object is a record with a "type" field.                          *)
(***************************************************************************)
EXTENDS Integers, Sequences, FiniteSets, TLC

VARIABLES
    pc,              \* position of the program
    src_answer,      \* source tokens of one ground truth: category, cmdb_id, candidates
    src_result,      \* source tokens of one submitted entry: category, cmdb_id, index
    answer,          \* the Answer built from src_answer
    result,          \* the Result built from src_result
    verdict,         \* value of result.is_correct(answer)
    answers,         \* judge: dict fault_id -> Answer
    results,         \* judge: dict fault_id -> list of Result
    grade_gradient,  \* judge: points per rank
    idx,             \* judge: position of the loop over answers
    rank,            \* judge: last value of get_rank
    grade,           \* judge: running total
    fs,              \* the file system: path -> file
    answer_path,     \* --answer
    result_path,     \* --result
    message,         \* judge: diagnostics collected from the loaders
    submitted,       \* the ranked lists handed to _dump_data
    warned           \* paths a warning was emitted for

vars == <<pc, src_answer, src_result, answer, result, verdict, answers, results,
          grade_gradient, idx, rank, grade, fs, answer_path, result_path, message,
          submitted, warned>>

matchVars == <<src_answer, src_result, answer, result, verdict>>
judgeVars == <<answers, results, grade_gradient, idx, rank, grade>>
fileVars == <<fs, answer_path, result_path, message, submitted, warned>>

----------------------------------------------------------------------------
(* Python values *)

None == [k |-> "none", s |-> <<>>, n |-> 0]
StrOf(s) == [k |-> "str", s |-> s, n |-> 0]
IntOf(n) == [k |-> "int", s |-> <<>>, n |-> n]

\* No object: the value of a variable that holds nothing yet.
Null == [type |-> "null"]

LowerLetters == <<"a","b","c","d","e","f","g","h","i","j","k","l","m",
                  "n","o","p","q","r","s","t","u","v","w","x","y","z">>
UpperLetters == <<"A","B","C","D","E","F","G","H","I","J","K","L","M",
                  "N","O","P","Q","R","S","T","U","V","W","X","Y","Z">>
Digits == <<"0","1","2","3","4","5","6","7","8","9">>

IndexIn(c, letters) == CHOOSE i \in 1..Len(letters) : letters[i] = c
IsIn(c, letters) == \E i \in 1..Len(letters) : letters[i] = c

\* str.upper() on one character
UpperChar(c) == IF IsIn(c, LowerLetters) THEN UpperLetters[IndexIn(c, LowerLetters)] ELSE c

\* str.upper()
StrUpper(s) == [i \in 1..Len(s) |-> UpperChar(s[i])]

\* the other case of a letter; any other character has one case only
SwapCaseChar(c) ==
    IF IsIn(c, LowerLetters) THEN UpperLetters[IndexIn(c, LowerLetters)]
    ELSE IF IsIn(c, UpperLetters) THEN LowerLetters[IndexIn(c, UpperLetters)]
    ELSE c

\* str(n) of an int n >= 0: its decimal digits
RECURSIVE Decimal(_)
Decimal(n) == IF n < 10 THEN <<Digits[n + 1]>> ELSE Append(Decimal(n \div 10), Digits[(n % 10) + 1])

\* str(item)
PyStr(item) ==
    IF item.k = "str" THEN item.s
    ELSE IF item.k = "int" THEN Decimal(item.n)
    ELSE <<"N","o","n","e">>

\* _upper
_upper(item) ==
    IF item = StrOf(<<>>) THEN None
    ELSE IF item.k = "str" THEN StrOf(StrUpper(item.s))
    ELSE item

\* Answer.__init__: candidates is a sequence of tokens
Answer(category, cmdb_id, candidates) ==
    [type |-> "Answer",
     category |-> StrUpper(PyStr(category)),
     cmdb_id |-> StrUpper(PyStr(cmdb_id)),
     candidates |-> {_upper(candidates[i]) : i \in 1..Len(candidates)}]

\* Result.__init__ calls category.upper() and cmdb_id.upper(): only a str has the method
ResultRaises(category, cmdb_id, index) == category.k # "str" \/ cmdb_id.k # "str"

ResultRawCategory(category, cmdb_id, index) ==
    [type |-> "Result",
     category |-> category.s,
     cmdb_id |-> StrUpper(cmdb_id.s),
     index |-> _upper(index)]

Result(category, cmdb_id, index) ==
    [type |-> "Result",
     category |-> StrUpper(category.s),
     cmdb_id |-> StrUpper(cmdb_id.s),
     index |-> _upper(index)]

\* an attribute read (.category, .is_correct) of an object that has no such attribute
IsCorrectRaises(res, ans) == res.type # "Result" \/ ans.type # "Answer"

is_correct_any_index(res, ans) ==
    /\ res.category = ans.category
    /\ res.cmdb_id = ans.cmdb_id

\* Result.is_correct
is_correct(res, ans) ==
    /\ res.category = ans.category
    /\ res.cmdb_id = ans.cmdb_id
    /\ res.index \in ans.candidates

----------------------------------------------------------------------------
(* Matching one submitted entry against one ground truth *)

MaxCandidates == 2

SeqsUpTo(S, n) == UNION {[1..m -> S] : m \in 0..n}

SrcCategories == {StrOf(<<"o","s">>), StrOf(<<"d">>)}
SrcComponents == {StrOf(<<"h","1">>)}
SrcIndicators == {None, StrOf(<<>>), StrOf(<<"c">>), StrOf(<<"5">>), IntOf(5)}

IdleMatch ==
    /\ src_answer = Null
    /\ src_result = Null
    /\ answer = Null
    /\ result = Null
    /\ verdict = FALSE

IdleJudge ==
    /\ answers = <<>>
    /\ results = <<>>
    /\ grade_gradient = <<>>
    /\ idx = 0
    /\ rank = None
    /\ grade = 0

IdleFiles ==
    /\ fs = <<>>
    /\ answer_path = Null
    /\ result_path = Null
    /\ message = <<>>
    /\ submitted = <<>>
    /\ warned = {}

InitMatch ==
    /\ pc = "src"
    /\ src_answer \in [category : SrcCategories, cmdb_id : SrcComponents,
                       candidates : SeqsUpTo(SrcIndicators, MaxCandidates)]
    /\ src_result \in [category : SrcCategories, cmdb_id : SrcComponents,
                       index : SrcIndicators]
    /\ answer = Null
    /\ result = Null
    /\ verdict = FALSE
    /\ IdleJudge /\ IdleFiles

\* Answer(...) and Result(...) of the source tokens
Construct ==
    /\ pc = "src"
    /\ answer' = Answer(src_answer.category, src_answer.cmdb_id, src_answer.candidates)
    /\ result' = Result(src_result.category, src_result.cmdb_id, src_result.index)
    /\ pc' = "built"
    /\ UNCHANGED <<src_answer, src_result, verdict>>
    /\ UNCHANGED <<judgeVars, fileVars>>

\* result.is_correct(answer)
IsCorrect ==
    /\ pc = "built"
    /\ verdict' = is_correct(result, answer)
    /\ pc' = "judged"
    /\ UNCHANGED <<src_answer, src_result, answer, result>>
    /\ UNCHANGED <<judgeVars, fileVars>>

\* token t with the letter at position i in its other case
AlterCaseAt(t, i) == [t EXCEPT !.s[i] = SwapCaseChar(t.s[i])]

\* The same entities built from sources that differ in the case of one letter
\* of one token, and matched again.
Rejudge(sa, sr) ==
    /\ pc = "judged"
    /\ src_answer' = sa
    /\ src_result' = sr
    /\ answer' = Answer(sa.category, sa.cmdb_id, sa.candidates)
    /\ result' = Result(sr.category, sr.cmdb_id, sr.index)
    /\ verdict' = is_correct(result', answer')
    /\ pc' = "judged"
    /\ UNCHANGED <<judgeVars, fileVars>>

AlterAnswerCase ==
    \/ \E i \in 1..Len(src_answer.category.s) :
           Rejudge([src_answer EXCEPT !.category = AlterCaseAt(@, i)], src_result)
    \/ \E i \in 1..Len(src_answer.cmdb_id.s) :
           Rejudge([src_answer EXCEPT !.cmdb_id = AlterCaseAt(@, i)], src_result)
    \/ \E j \in 1..Len(src_answer.candidates) :
           \E i \in 1..Len(src_answer.candidates[j].s) :
               Rejudge([src_answer EXCEPT !.candidates[j] = AlterCaseAt(@, i)], src_result)

AlterResultCase ==
    \/ \E i \in 1..Len(src_result.category.s) :
           Rejudge(src_answer, [src_result EXCEPT !.category = AlterCaseAt(@, i)])
    \/ \E i \in 1..Len(src_result.cmdb_id.s) :
           Rejudge(src_answer, [src_result EXCEPT !.cmdb_id = AlterCaseAt(@, i)])
    \/ \E i \in 1..Len(src_result.index.s) :
           Rejudge(src_answer, [src_result EXCEPT !.index = AlterCaseAt(@, i)])

NextMatch == Construct \/ IsCorrect \/ AlterAnswerCase \/ AlterResultCase

SpecMatch == InitMatch /\ [][NextMatch]_vars

(* Claims about matching *)

Absent(t) == t = None \/ t = StrOf(<<>>)

CategoryAndComponentMatch ==
    /\ result.category = answer.category
    /\ result.cmdb_id = answer.cmdb_id

\* C3: is_correct is true iff the normalized category and component id of the
\* Result equal those of the Answer and the normalized indicator is one of the
\* Answer's candidates. In particular a Result whose source indicator is None or
\* the empty string, with matching category and component, is correct iff one of
\* the Answer's candidate tokens was None or the empty string; it never matches
\* a non-empty candidate token.
C3_IsCorrectRule ==
    pc = "judged" =>
        /\ verdict = (/\ result.category = StrUpper(PyStr(src_answer.category))
                      /\ result.cmdb_id = StrUpper(PyStr(src_answer.cmdb_id))
                      /\ \E j \in 1..Len(src_answer.candidates) :
                             _upper(src_answer.candidates[j]) = result.index)
        /\ (Absent(src_result.index) /\ CategoryAndComponentMatch) =>
               (verdict <=> \E j \in 1..Len(src_answer.candidates) :
                                Absent(src_answer.candidates[j]))

\* An empty-string indicator matched a ground truth whose only candidate is None.
C3_Witness ==
    /\ pc = "judged"
    /\ src_result.index = StrOf(<<>>)
    /\ src_answer.candidates = <<None>>
    /\ verdict

\* C8: matching is case-insensitive: building the entities from sources that
\* differ only in the case of a letter of the category, the component id, the
\* indicator or a candidate token leaves the value of is_correct unchanged.
C8_CaseInsensitive ==
    [][(pc = "judged" /\ pc' = "judged") => verdict' = verdict]_vars

\* A match between sources whose categories, component ids and indicator
\* differ in case.
C8_Witness ==
    /\ pc = "judged"
    /\ verdict
    /\ src_answer.category = StrOf(<<"O","s">>)
    /\ src_result.category = StrOf(<<"o","S">>)
    /\ src_answer.cmdb_id = StrOf(<<"H","1">>)
    /\ src_result.cmdb_id = StrOf(<<"h","1">>)
    /\ src_answer.candidates = <<StrOf(<<"C">>)>>
    /\ src_result.index = StrOf(<<"c">>)

\* C10: the normalizer returns, for every token that is neither the empty
\* string nor None, the upper-cased string form of the token, so a candidate
\* given as the integer 5 and an indicator given as the string "5" match.
C10_NormalizerCoerces ==
    /\ pc # "src" =>
           \A j \in 1..Len(src_answer.candidates) :
               ~Absent(src_answer.candidates[j]) =>
                   StrOf(StrUpper(PyStr(src_answer.candidates[j]))) \in answer.candidates
    /\ (/\ pc = "judged"
        /\ CategoryAndComponentMatch
        /\ \E j \in 1..Len(src_answer.candidates) :
               /\ src_answer.candidates[j].k = "int"
               /\ src_result.index = StrOf(PyStr(src_answer.candidates[j]))) => verdict

----------------------------------------------------------------------------
(* Ranking and grading *)

\* dict: key in d, d[key] and d[key] = val (a new key goes last)
Has(d, key) == \E i \in 1..Len(d) : d[i].key = key
Get(d, key) == d[CHOOSE i \in 1..Len(d) : d[i].key = key].val
Put(d, key, val) ==
    IF Has(d, key)
    THEN [i \in 1..Len(d) |-> IF d[i].key = key THEN [key |-> key, val |-> val] ELSE d[i]]
    ELSE Append(d, [key |-> key, val |-> val])

\* the loop of get_rank from position i (1-based) on
RECURSIVE RankFrom(_, _, _)
RankFrom(rs, ans, i) ==
    IF i > Len(rs) THEN None
    ELSE IF is_correct(rs[i], ans) THEN IntOf(i - 1)
    ELSE RankFrom(rs, ans, i + 1)

\* whether that loop reaches an element, or meets an answer, that is no
\* Result or no Answer before it returns
RECURSIVE RankRaisesFrom(_, _, _)
RankRaisesFrom(rs, ans, i) ==
    IF i > Len(rs) THEN FALSE
    ELSE IF IsCorrectRaises(rs[i], ans) THEN TRUE
    ELSE IF is_correct(rs[i], ans) THEN FALSE
    ELSE RankRaisesFrom(rs, ans, i + 1)

get_rank_raises(rs, ans) == RankRaisesFrom(rs, ans, 1)

RECURSIVE LastRankFrom(_, _, _)
LastRankFrom(rs, ans, i) ==
    IF i = 0 THEN None
    ELSE IF is_correct(rs[i], ans) THEN IntOf(i - 1)
    ELSE LastRankFrom(rs, ans, i - 1)

get_rank_last(rs, ans) == LastRankFrom(rs, ans, Len(rs))

get_rank(rs, ans) == RankFrom(rs, ans, 1)

RewardClamped(gradient, r) ==
    IF r # None /\ Len(gradient) > 0
    THEN gradient[IF r.n < Len(gradient) THEN r.n + 1 ELSE Len(gradient)]
    ELSE 0

\* judge, lines 145-146: the points added for a rank
Reward(gradient, r) ==
    IF r # None /\ r.n < Len(gradient) THEN gradient[r.n + 1] ELSE 0

\* One iteration of the loop of judge over answers. An exception of get_rank
\* leaves judge.
JudgeStep ==
    /\ pc = "grade"
    /\ idx < Len(answers)
    /\ LET i == answers[idx + 1].key
       IN  IF ~Has(results, i)
           THEN /\ idx' = idx + 1
                /\ pc' = "grade"
                /\ UNCHANGED <<rank, grade>>
           ELSE IF get_rank_raises(Get(results, i), Get(answers, i))
           THEN /\ pc' = "raised"
                /\ UNCHANGED <<idx, rank, grade>>
           ELSE /\ rank' = get_rank(Get(results, i), Get(answers, i))
                /\ grade' = grade + Reward(grade_gradient, rank')
                /\ idx' = idx + 1
                /\ pc' = "grade"
    /\ UNCHANGED <<answers, results, grade_gradient>>
    /\ UNCHANGED <<matchVars, fileVars>>

\* return grade
JudgeReturn ==
    /\ pc = "grade"
    /\ idx = Len(answers)
    /\ pc' = "done"
    /\ UNCHANGED <<judgeVars, matchVars, fileVars>>

MaxResults == 2
MaxGradient == 2

Points == {100, 20}

Os == StrOf(<<"o","s">>)
Db == StrOf(<<"d","b">>)
H1 == StrOf(<<"h","1">>)
Cpu == StrOf(<<"c">>)
Five == StrOf(<<"5">>)

FaultIds == <<IntOf(1), StrOf(<<"1">>)>>

AnswerPool ==
    {Answer(Os, H1, <<Cpu>>), Answer(Os, H1, <<None>>), Answer(Db, H1, <<Cpu, Five>>)}

ResultPool ==
    {Result(Os, H1, Cpu), Result(Os, H1, StrOf(<<>>)), Result(Db, H1, Five)}

\* the dicts whose keys are among ids[n..], in that order, with values in Vals
RECURSIVE DictsFrom(_, _, _)
DictsFrom(ids, n, Vals) ==
    IF n > Len(ids) THEN {<<>>}
    ELSE LET rest == DictsFrom(ids, n + 1, Vals)
         IN  rest \cup {<<[key |-> ids[n], val |-> v]>> \o d : v \in Vals, d \in rest}

InitGrade ==
    /\ pc = "grade"
    /\ answers \in DictsFrom(FaultIds, 1, AnswerPool)
    /\ results \in DictsFrom(FaultIds, 1, SeqsUpTo(ResultPool, MaxResults))
    /\ grade_gradient \in SeqsUpTo(Points, MaxGradient)
    /\ idx = 0
    /\ rank = None
    /\ grade = 0
    /\ IdleMatch /\ IdleFiles

NextGrade == JudgeStep \/ JudgeReturn

SpecGrade == InitGrade /\ [][NextGrade]_vars

(* Claims about ranking and grading *)

Correct(rs, ans) == {i \in 1..Len(rs) : is_correct(rs[i], ans)}

\* the smallest index of a correct entry, None when there is none
SmallestCorrect(rs, ans) ==
    IF Correct(rs, ans) = {} THEN None
    ELSE IntOf((CHOOSE i \in Correct(rs, ans) : \A j \in Correct(rs, ans) : i <= j) - 1)

\* what the fault id contributes according to the rule of the grade
Contribution(id) ==
    IF ~Has(results, id) THEN 0
    ELSE LET r == get_rank(Get(results, id), Get(answers, id))
         IN  IF r = None THEN 0
             ELSE IF r.n >= Len(grade_gradient) THEN 0
             ELSE grade_gradient[r.n + 1]

\* the sum of the contributions of the first n fault ids of answers
RECURSIVE ExpectedGrade(_)
ExpectedGrade(n) ==
    IF n = 0 THEN 0 ELSE ExpectedGrade(n - 1) + Contribution(answers[n].key)

\* C1: the grade judge returns is the sum, over the fault ids of answers, of
\* gradient[rank] when the id is in results, rank = get_rank(results[id],
\* answers[id]) is present and rank < len(gradient), and of 0 otherwise. Ids
\* that occur in results only add nothing, and a fault with several correct
\* entries counts once, at its first correct rank.
C1_GradeIsSum ==
    pc = "done" => grade = ExpectedGrade(Len(answers))

\* A grade of 120 from two faults, one matched at rank 0 and one at rank 1,
\* one of them with two correct entries.
C1_Witness ==
    /\ pc = "done"
    /\ grade_gradient = <<100, 20>>
    /\ Len(answers) = 2
    /\ grade = 120
    /\ \E i \in 1..Len(results) : Cardinality(Correct(results[i].val, Get(answers, results[i].key))) = 2

\* C2: get_rank returns the smallest index of a correct entry, and None iff
\* the sequence is empty or holds no correct entry; it never returns an index
\* beyond a correct entry, and it leaves the sequence unchanged.
C2_RankIsFirstCorrect ==
    [][(pc = "grade" /\ idx' = idx + 1 /\ Has(results, answers[idx + 1].key)) =>
           LET rs == Get(results, answers[idx + 1].key)
               ans == answers[idx + 1].val
           IN  /\ rank' = SmallestCorrect(rs, ans)
               /\ (rank' = None <=> (rs = <<>> \/ \A i \in 1..Len(rs) : ~is_correct(rs[i], ans)))
               /\ \A k \in Correct(rs, ans) : rank'.n <= k - 1
               /\ results' = results]_vars

\* get_rank returned 1 for a list whose entry 0 is wrong and entry 1 correct.
C2_Witness ==
    /\ pc = "grade"
    /\ idx = 1
    /\ Has(results, answers[1].key)
    /\ Len(Get(results, answers[1].key)) = 2
    /\ ~is_correct(Get(results, answers[1].key)[1], answers[1].val)
    /\ is_correct(Get(results, answers[1].key)[2], answers[1].val)
    /\ rank = IntOf(1)

----------------------------------------------------------------------------
(* Files *)

\* A path is a name and an extension; path.endswith(ext)
EndsWith(path, ext) == path.ext = ext

\* A file is absent, or holds an HDF table (rows), a JSON object (a dict of
\* raw values), CSV lines (the first one the header), or text no parser reads.
NoFile == [kind |-> "none", rows |-> <<>>]
Garbage == [kind |-> "garbage", rows |-> <<>>]
HdfFile(rows) == [kind |-> "hdf", rows |-> rows]
JsonFile(entries) == [kind |-> "json", rows |-> entries]
CsvFile(lines) == [kind |-> "csv", rows |-> lines]

\* os.path.exists(path)
Exists(files, path) == files[path].kind # "none"

\* A JSON list as json.load returns it, before Answer(*x) or Result(*x): only
\* a list of three elements fits the constructor.
RawAnswer(category, cmdb_id, candidates) ==
    [type |-> "raw", arity_ok |-> TRUE, category |-> category, cmdb_id |-> cmdb_id,
     candidates |-> candidates]
RawResult(category, cmdb_id, index) ==
    [type |-> "raw", arity_ok |-> TRUE, category |-> category, cmdb_id |-> cmdb_id,
     index |-> index]
BadRaw == [type |-> "raw", arity_ok |-> FALSE]

\* A CSV line: five cells, each a str, or some other number of cells
CsvLine(fault_id, rnk, category, cmdb_id, index) ==
    [ok |-> TRUE, fault_id |-> fault_id, rank |-> rnk, category |-> category,
     cmdb_id |-> cmdb_id, index |-> index]
BadLine == [ok |-> FALSE]

\* 'Failed to parse "%s"' % (path, ), and '' as the empty sequence
FailedToParse(path) == <<"Failed to parse", path>>

\* characters in the order of their code points
CodeOrder == Digits \o UpperLetters \o <<"_">> \o LowerLetters

\* a < b on str
RECURSIVE StrLess(_, _)
StrLess(a, b) ==
    IF b = <<>> THEN FALSE
    ELSE IF a = <<>> THEN TRUE
    ELSE IF IndexIn(a[1], CodeOrder) < IndexIn(b[1], CodeOrder) THEN TRUE
    ELSE IF IndexIn(a[1], CodeOrder) > IndexIn(b[1], CodeOrder) THEN FALSE
    ELSE StrLess(Tail(a), Tail(b))

\* the order of the key of sorted() in _load_data: item[0], a str read from the file
RankLess(a, b) == StrLess(a, b)

\* sorted(pairs, key=lambda item: item[0]): stable
RECURSIVE InsertByRank(_, _)
InsertByRank(s, p) ==
    IF s = <<>> THEN <<p>>
    ELSE IF RankLess(p.rank.s, Head(s).rank.s) THEN <<p>> \o s
    ELSE <<Head(s)>> \o InsertByRank(Tail(s), p)

RECURSIVE SortedFirst(_, _)
SortedFirst(pairs, n) ==
    IF n = 0 THEN <<>> ELSE InsertByRank(SortedFirst(pairs, n - 1), pairs[n])

sorted(pairs) == SortedFirst(pairs, Len(pairs))

\* _load_answer, lines 74-77: the rows of the table from row i on
RECURSIVE HdfAnswersFrom(_, _, _)
HdfAnswersFrom(rows, i, data) ==
    IF i > Len(rows) THEN data
    ELSE LET r == rows[i]
             d1 == IF ~Has(data, r.fault_id)
                   THEN Put(data, r.fault_id, Answer(r.category, r.cmdb_id, <<>>))
                   ELSE data
             a == Get(d1, r.fault_id)
         IN  HdfAnswersFrom(rows, i + 1,
                 Put(d1, r.fault_id, [a EXCEPT !.candidates = @ \cup {_upper(r.candidate)}]))

\* _load_answer, lines 81-82: data[fault_id] = Answer(*data[fault_id]) from
\* entry i on; an exception leaves data as it is by then
RECURSIVE JsonAnswersFrom(_, _)
JsonAnswersFrom(data, i) ==
    IF i > Len(data) THEN [data |-> data, failed |-> FALSE]
    ELSE IF ~data[i].val.arity_ok THEN [data |-> data, failed |-> TRUE]
    ELSE JsonAnswersFrom(
             [data EXCEPT ![i].val = Answer(@.category, @.cmdb_id, @.candidates)], i + 1)

WithMessage(loaded, path) ==
    [data |-> loaded.data,
     message |-> IF loaded.failed THEN FailedToParse(path) ELSE <<>>]

_load_answer(files, path) ==
    IF EndsWith(path, ".hdf")
    THEN IF files[path].kind # "hdf"
         THEN [data |-> <<>>, message |-> FailedToParse(path)]
         ELSE [data |-> HdfAnswersFrom(files[path].rows, 1, <<>>), message |-> <<>>]
    ELSE IF files[path].kind # "json"
         THEN [data |-> <<>>, message |-> FailedToParse(path)]
         ELSE WithMessage(JsonAnswersFrom(files[path].rows, 1), path)

\* _load_data, lines 97-100: the lines from line i on
RECURSIVE CsvRowsFrom(_, _, _)
CsvRowsFrom(lines, i, data) ==
    IF i > Len(lines) THEN [data |-> data, failed |-> FALSE]
    ELSE IF ~lines[i].ok THEN [data |-> data, failed |-> TRUE]
    ELSE LET r == lines[i]
             d1 == IF ~Has(data, r.fault_id) THEN Put(data, r.fault_id, <<>>) ELSE data
             pair == [type |-> "pair", rank |-> r.rank,
                      result |-> Result(r.category, r.cmdb_id, r.index)]
         IN  CsvRowsFrom(lines, i + 1,
                 Put(d1, r.fault_id, Append(Get(d1, r.fault_id), pair)))

\* _load_data, lines 101-103
SortAndStrip(data) ==
    [f \in 1..Len(data) |->
        [key |-> data[f].key,
         val |-> LET ranks == sorted(data[f].val)
                 IN  [j \in 1..Len(ranks) |-> ranks[j].result]]]

\* [Result(*item) for item in items] raises
ItemsRaise(items) ==
    \E j \in 1..Len(items) :
        \/ ~items[j].arity_ok
        \/ ResultRaises(items[j].category, items[j].cmdb_id, items[j].index)

\* _load_data, lines 106-107, from entry i on
RECURSIVE JsonResultsFrom(_, _)
JsonResultsFrom(data, i) ==
    IF i > Len(data) THEN [data |-> data, failed |-> FALSE]
    ELSE IF ItemsRaise(data[i].val) THEN [data |-> data, failed |-> TRUE]
    ELSE JsonResultsFrom(
             [data EXCEPT ![i].val =
                 [j \in 1..Len(@) |-> Result(@[j].category, @[j].cmdb_id, @[j].index)]],
             i + 1)

_load_data(files, path) ==
    IF files[path].kind = "none"
    THEN [data |-> <<>>, message |-> FailedToParse(path)]
    ELSE IF EndsWith(path, ".csv")
    THEN IF files[path].kind # "csv" \/ files[path].rows = <<>>
         THEN [data |-> <<>>, message |-> FailedToParse(path)]
         ELSE LET read == CsvRowsFrom(files[path].rows, 2, <<>>)
              IN  IF read.failed
                  THEN [data |-> read.data, message |-> FailedToParse(path)]
                  ELSE [data |-> SortAndStrip(read.data), message |-> <<>>]
    ELSE IF files[path].kind # "json"
         THEN [data |-> <<>>, message |-> FailedToParse(path)]
         ELSE WithMessage(JsonResultsFrom(files[path].rows, 1), path)

----------------------------------------------------------------------------
(* judge: the loaders, then the loop above *)

\* judge, lines 127-131
JudgeLoadAnswer ==
    /\ pc = "judge"
    /\ LET loaded == _load_answer(fs, answer_path)
       IN  /\ answers' = loaded.data
           /\ message' = IF loaded.message # <<>> THEN <<loaded.message>> ELSE <<>>
    /\ pc' = "answers_loaded"
    /\ UNCHANGED <<results, grade_gradient, idx, rank, grade>>
    /\ UNCHANGED <<fs, answer_path, result_path, submitted, warned>>
    /\ UNCHANGED matchVars

\* judge, lines 132-140
JudgeLoadData ==
    /\ pc = "answers_loaded"
    /\ LET loaded == _load_data(fs, result_path)
       IN  /\ results' = loaded.data
           /\ message' = IF loaded.message # <<>> THEN Append(message, loaded.message)
                         ELSE message
    /\ grade' = 0
    /\ idx' = 0
    /\ pc' = "grade"
    /\ UNCHANGED <<answers, grade_gradient, rank>>
    /\ UNCHANGED <<fs, answer_path, result_path, submitted, warned>>
    /\ UNCHANGED matchVars

MaxRows == 2

AnswerHdf == [name |-> "answer", ext |-> ".hdf"]
AnswerJson == [name |-> "answer", ext |-> ".json"]
ResultCsv == [name |-> "result", ext |-> ".csv"]
ResultJson == [name |-> "result", ext |-> ".json"]

One == StrOf(<<"1">>)
Two == StrOf(<<"2">>)

\* the header line _dump_data writes
HeaderLine ==
    CsvLine(StrOf(<<"f","a","u","l","t","_","i","d">>), StrOf(<<"r","a","n","k">>),
            StrOf(<<"c","a","t","e","g","o","r","y">>),
            StrOf(<<"c","m","d","b","_","i","d">>), StrOf(<<"i","n","d","e","x">>))

HdfRowPool ==
    [fault_id : {IntOf(1), One}, category : {Os}, cmdb_id : {H1}, candidate : {Cpu, None}]

CsvLinePool ==
    {CsvLine(One, StrOf(<<"0">>), Os, H1, Cpu), CsvLine(One, StrOf(<<"1">>), Os, H1, StrOf(<<>>)),
     CsvLine(Two, StrOf(<<"0">>), Os, H1, Cpu), BadLine}

\* the files that may be found at the path
FilesAt(path) ==
    {NoFile, Garbage} \cup
    (IF path = AnswerHdf THEN {HdfFile(rows) : rows \in SeqsUpTo(HdfRowPool, MaxRows)}
     ELSE IF path = AnswerJson
     THEN {JsonFile(d) : d \in DictsFrom(<<One, Two>>, 1,
                                         {RawAnswer(Os, H1, <<Cpu>>), BadRaw})}
     ELSE IF path = ResultCsv
     THEN {CsvFile(<<>>)} \cup
          {CsvFile(<<HeaderLine>> \o rows) : rows \in SeqsUpTo(CsvLinePool, MaxRows)}
     ELSE {JsonFile(d) : d \in DictsFrom(<<One, Two>>, 1,
               SeqsUpTo({RawResult(Os, H1, Cpu), RawResult(None, H1, Cpu), BadRaw}, MaxRows))})

InitJudge ==
    /\ pc = "judge"
    /\ answer_path \in {AnswerHdf, AnswerJson}
    /\ result_path \in {ResultCsv, ResultJson}
    /\ \E a \in FilesAt(answer_path), r \in FilesAt(result_path) :
           fs = [p \in {answer_path, result_path} |-> IF p = answer_path THEN a ELSE r]
    /\ message = <<>>
    /\ submitted = <<>>
    /\ warned = {}
    /\ answers = <<>>
    /\ results = <<>>
    /\ grade_gradient = <<100, 20>>
    /\ idx = 0
    /\ rank = None
    /\ grade = 0
    /\ IdleMatch

NextJudge == JudgeLoadAnswer \/ JudgeLoadData \/ JudgeStep \/ JudgeReturn

SpecJudge == InitJudge /\ [][NextJudge]_vars

(* Claims about the loaders and judge *)

\* the source at the path cannot be parsed: it is missing or unreadable, or a
\* record of it does not fit
AnswerSourceFails ==
    \/ fs[answer_path].kind # (IF EndsWith(answer_path, ".hdf") THEN "hdf" ELSE "json")
    \/ /\ fs[answer_path].kind = "json"
       /\ \E i \in 1..Len(fs[answer_path].rows) : ~fs[answer_path].rows[i].val.arity_ok

ResultSourceFails ==
    \/ fs[result_path].kind # (IF EndsWith(result_path, ".csv") THEN "csv" ELSE "json")
    \/ /\ fs[result_path].kind = "csv"
       /\ \/ fs[result_path].rows = <<>>
          \/ \E i \in 2..Len(fs[result_path].rows) : ~fs[result_path].rows[i].ok
    \/ /\ fs[result_path].kind = "json"
       /\ \E i \in 1..Len(fs[result_path].rows) : ItemsRaise(fs[result_path].rows[i].val)

\* C4: on a parse failure _load_answer and _load_data each return an empty
\* mapping and a non-empty message, also when the failure comes after some
\* records or faults were processed.
C4_FailSoftEmpty ==
    /\ (pc \in {"answers_loaded", "grade", "done", "raised"} /\ AnswerSourceFails) =>
           (answers = <<>> /\ FailedToParse(answer_path) \in {message[i] : i \in 1..Len(message)})
    /\ (pc \in {"grade", "done", "raised"} /\ ResultSourceFails) =>
           (results = <<>> /\ FailedToParse(result_path) \in {message[i] : i \in 1..Len(message)})

\* C5: for every pair of sources, malformed ones included, judge runs to
\* completion and returns a grade without raising.
C5_JudgeNeverRaises ==
    pc # "raised"

\* the same fault id, as strings
SameFault(a, b) == PyStr(a) = PyStr(b)

JoinedContribution(n) ==
    IF \E i \in 1..Len(results) : SameFault(results[i].key, answers[n].key)
    THEN LET rs == results[CHOOSE i \in 1..Len(results) :
                               SameFault(results[i].key, answers[n].key)].val
         IN  Reward(grade_gradient, get_rank(rs, answers[n].val))
    ELSE 0

RECURSIVE JoinedGrade(_)
JoinedGrade(n) == IF n = 0 THEN 0 ELSE JoinedGrade(n - 1) + JoinedContribution(n)

\* C7: fault ids are joined as strings: a fault keyed by the integer n in
\* answers and by the string form of n in results is the same fault to judge,
\* and its results are ranked against its answer.
C7_StringEquivalentJoin ==
    (pc = "done" /\ ~AnswerSourceFails /\ ~ResultSourceFails) =>
        grade = JoinedGrade(Len(answers))

----------------------------------------------------------------------------
(* Writing files: _dump_answer, _dump_data and the demo *)

\* a cell as csv.writer writes it: None as the empty string, an int as str(int)
CsvCell(item) == IF item.k = "none" THEN <<>> ELSE PyStr(item)

\* _dump_answer, lines 158-161: the rows of the faults from entry f on
RECURSIVE HdfRowsFrom(_, _)
HdfRowsFrom(data, f) ==
    IF f > Len(data) THEN <<>>
    ELSE [c \in 1..Len(data[f].val.candidates) |->
             [fault_id |-> StrOf(PyStr(data[f].key)), category |-> data[f].val.category,
              cmdb_id |-> data[f].val.cmdb_id, candidate |-> data[f].val.candidates[c]]]
         \o HdfRowsFrom(data, f + 1)

\* json.dump(data, obj): the keys of a JSON object are strings
JsonOf(data) ==
    [f \in 1..Len(data) |-> [key |-> StrOf(PyStr(data[f].key)), val |-> data[f].val]]

\* _dump_data, lines 180-182: the lines of the faults from entry f on
RECURSIVE CsvLinesFrom(_, _)
CsvLinesFrom(data, f) ==
    IF f > Len(data) THEN <<>>
    ELSE [r \in 1..Len(data[f].val) |->
             CsvLine(StrOf(CsvCell(data[f].key)), StrOf(Decimal(r - 1)),
                     StrOf(CsvCell(data[f].val[r].category)),
                     StrOf(CsvCell(data[f].val[r].cmdb_id)),
                     StrOf(CsvCell(data[f].val[r].index)))]
         \o CsvLinesFrom(data, f + 1)

\* the file _dump_answer writes at the path
AnswerFileFor(data, path) ==
    IF EndsWith(path, ".hdf") THEN HdfFile(HdfRowsFrom(data, 1)) ELSE JsonFile(JsonOf(data))

\* the file _dump_data writes at the path
DataFileFor(data, path) ==
    IF EndsWith(path, ".csv") THEN CsvFile(<<HeaderLine>> \o CsvLinesFrom(data, 1))
    ELSE JsonFile(JsonOf(data))

_dump_answer_overwrite(files, data, path) ==
    [files |-> [files EXCEPT ![path] = AnswerFileFor(data, path)], warned |-> {}]

_dump_answer(files, data, path) ==
    IF Exists(files, path)
    THEN [files |-> files, warned |-> {path}]
    ELSE [files |-> [files EXCEPT ![path] = AnswerFileFor(data, path)], warned |-> {}]

_dump_data(files, data, path) ==
    IF Exists(files, path)
    THEN [files |-> files, warned |-> {path}]
    ELSE [files |-> [files EXCEPT ![path] = DataFileFor(data, path)], warned |-> {}]

ground_truth ==
    <<[key |-> IntOf(1), val |-> RawAnswer(StrOf(<<"o","s">>), StrOf(<<"o","s","_","0","2","0">>),
           <<StrOf(<<"C","P","U","_","u","s","e","r","_","t","i","m","e">>), StrOf(<<"C","P","U","_","u","t","i","l","_","p","c","t">>)>>)],
      [key |-> IntOf(2), val |-> RawAnswer(StrOf(<<"d","o","c","k","e","r">>), StrOf(<<"d","o","c","k","e","r","_","0","0","1">>),
           <<None>>)],
      [key |-> IntOf(3), val |-> RawAnswer(StrOf(<<"d","b">>), StrOf(<<"d","b","_","0","0","3">>),
           <<StrOf(<<"U","s","e","r","_","C","o","m","m","i","t">>)>>)],
      [key |-> IntOf(4), val |-> RawAnswer(StrOf(<<"o","s">>), StrOf(<<"o","s","_","0","1","9">>),
           <<StrOf(<<"M","e","m","o","r","y","_","f","r","e","e">>)>>)]>>
submitted_answer ==
    <<[key |-> IntOf(1), val |->
           <<RawResult(StrOf(<<"d","o","c","k","e","r">>), StrOf(<<"d","o","c","k","e","r","_","0","0","1">>), None)>>],
      [key |-> IntOf(2), val |->
           <<RawResult(StrOf(<<"d","o","c","k","e","r">>), StrOf(<<"d","o","c","k","e","r","_","0","0","1">>), None)>>],
      [key |-> IntOf(3), val |->
           <<RawResult(StrOf(<<"d","b">>), StrOf(<<"d","b","_","0","0","3">>), None),
             RawResult(StrOf(<<"d","b">>), StrOf(<<"d","b","_","0","0","3">>), StrOf(<<"U","s","e","r","_","C","o","m","m","i","t">>))>>]>>

\* _demo
Demo ==
    /\ pc = "demo"
    /\ LET a == _dump_answer(fs, ground_truth, answer_path)
           d == _dump_data(a.files, submitted_answer, result_path)
       IN  /\ fs' = d.files
           /\ warned' = warned \cup a.warned \cup d.warned
    /\ submitted' = submitted_answer
    /\ pc' = "demo_done"
    /\ UNCHANGED <<answer_path, result_path, message>>
    /\ UNCHANGED <<matchVars, judgeVars>>

DemoPaths == {AnswerHdf, AnswerJson, ResultCsv, ResultJson}

InitDemo ==
    /\ pc = "demo"
    /\ answer_path \in DemoPaths
    /\ result_path \in DemoPaths
    /\ fs \in [DemoPaths -> {NoFile, Garbage}]
    /\ message = <<>>
    /\ submitted = <<>>
    /\ warned = {}
    /\ answers = <<>>
    /\ results = <<>>
    /\ grade_gradient = <<100, 20>>
    /\ idx = 0
    /\ rank = None
    /\ grade = 0
    /\ IdleMatch

NextDemo == Demo

SpecDemo == InitDemo /\ [][NextDemo]_vars

\* C9: the demo never overwrites an existing file and treats its two files
\* independently: an existing answer path keeps its content and a warning is
\* emitted, while a result path that does not exist is still written, and the
\* other way round; a path that does not exist beforehand holds the bundled
\* example afterwards.
C9_DemoNeverOverwrites ==
    [][(pc = "demo" /\ pc' = "demo_done") =>
          /\ \A p \in DOMAIN fs : Exists(fs, p) => fs'[p] = fs[p]
          /\ \A p \in {answer_path, result_path} : Exists(fs, p) => p \in warned'
          /\ (Exists(fs, answer_path) /\ ~Exists(fs, result_path)) =>
                 fs'[result_path] = DataFileFor(submitted_answer, result_path)
          /\ (Exists(fs, result_path) /\ ~Exists(fs, answer_path)) =>
                 fs'[answer_path] = AnswerFileFor(ground_truth, answer_path)
          /\ \A p \in {answer_path, result_path} : ~Exists(fs, p) =>
                 fs'[p] = (IF p = answer_path THEN AnswerFileFor(ground_truth, p)
                           ELSE DataFileFor(submitted_answer, p))]_vars

\* The answer path existed, kept its content and was warned about, and the
\* result file was written beside it.
C9_Witness ==
    /\ pc = "demo_done"
    /\ answer_path = AnswerHdf
    /\ result_path = ResultCsv
    /\ fs[answer_path] = Garbage
    /\ warned = {answer_path}
    /\ fs[result_path] = DataFileFor(submitted_answer, result_path)

----------------------------------------------------------------------------
(* A ranked list written by _dump_data and read back by _load_data *)

MaxEntries == 12

\* the n entries of a ranked list, entry i with the indicator "m<i>"
Entries(n) == [i \in 1..n |-> RawResult(Os, H1, StrOf(<<"m">> \o Decimal(i - 1)))]

InitRank ==
    /\ pc = "dump"
    /\ \E n \in 0..MaxEntries : submitted = <<[key |-> IntOf(1), val |-> Entries(n)]>>
    /\ answer_path = AnswerJson
    /\ result_path = ResultCsv
    /\ fs = [p \in {ResultCsv} |-> NoFile]
    /\ message = <<>>
    /\ warned = {}
    /\ IdleMatch /\ IdleJudge

\* _dump_data(submitted, result_path)
DumpData ==
    /\ pc = "dump"
    /\ LET d == _dump_data(fs, submitted, result_path)
       IN  /\ fs' = d.files
           /\ warned' = warned \cup d.warned
    /\ pc' = "file"
    /\ UNCHANGED <<answer_path, result_path, message, submitted>>
    /\ UNCHANGED <<matchVars, judgeVars>>

\* The rows of a file need not be in the order of their ranks: the first row
\* is moved behind the last one.
MoveRow ==
    /\ pc = "file"
    /\ Len(fs[result_path].rows) > 2
    /\ fs' = [fs EXCEPT ![result_path].rows =
                 <<@[1]>> \o SubSeq(@, 3, Len(@)) \o <<@[2]>>]
    /\ UNCHANGED <<pc, answer_path, result_path, message, submitted, warned>>
    /\ UNCHANGED <<matchVars, judgeVars>>

\* _load_data(result_path)
LoadData ==
    /\ pc = "file"
    /\ LET loaded == _load_data(fs, result_path)
       IN  /\ results' = loaded.data
           /\ message' = IF loaded.message # <<>> THEN <<loaded.message>> ELSE <<>>
    /\ pc' = "loaded"
    /\ UNCHANGED <<answers, grade_gradient, idx, rank, grade>>
    /\ UNCHANGED <<fs, answer_path, result_path, submitted, warned>>
    /\ UNCHANGED matchVars

NextRank == DumpData \/ MoveRow \/ LoadData

SpecRank == InitRank /\ [][NextRank]_vars

\* C6: for a CSV source the list the loader produces for a fault holds the
\* fault's entries in ascending order of their integer rank, whatever the
\* order of the rows and however many the entries; so a ranked list written by
\* _dump_data and read back by _load_data comes back in its submitted order.
C6_LoadedInRankOrder ==
    pc = "loaded" =>
        \A f \in 1..Len(results) :
            results[f].val = [i \in 1..Len(submitted[f].val) |->
                                 Result(submitted[f].val[i].category,
                                        submitted[f].val[i].cmdb_id,
                                        submitted[f].val[i].index)]

====
